---- MODULE Spec2Model ----
(***************************************************************************)
(* Umbrella-sampling workflow: window placement (windows.py), restraint    *)
(* generation (min_heat_equi_pull.py) and the CV time-series readers of    *)
(* the analysis scripts (us_check.py, check_sampling.py).                  *)
(*                                                                         *)
(* Numbers: CV values are integers (Angstrom); window centers are exact    *)
(* rationals <<numerator, denominator>>.  Text files are sequences of      *)
(* one-character strings, so that str.replace and number formatting are    *)
(* modelled by what they do to the characters.                             *)
(***************************************************************************)
EXTENDS Integers, Sequences, FiniteSets, TLC

\* ---------------------------------------------------------------- bounds
MaxWindows == 3
MaxRows == 3
MaxFracDigits == 6

\* ------------------------------------------------------- program constants
min_com == 3
max_com == 33
PULL_DIST_START == 3
PULL_DIST_END == 33
PULL_FORCE_CONST == 1
PROD_FORCE_CONST == 2
BufferOffset == 1000

\* Measured CV values a pull_dist.dat / dist.dat file may hold.
CVValues == {10, 26}

\* ------------------------------------------------------------ text helpers
Digits == <<"0", "1", "2", "3", "4", "5", "6", "7", "8", "9">>

RECURSIVE NatStr(_)
NatStr(k) ==
    IF k < 10 THEN <<Digits[k + 1]>>
    ELSE NatStr(k \div 10) \o <<Digits[(k % 10) + 1]>>

\* Fraction digits of r/d (0 <= r < d) by long division, at least one digit.
RECURSIVE FracStr(_, _, _)
FracStr(r, d, left) ==
    LET q == (r * 10) \div d
        rem == (r * 10) % d
    IN  IF rem = 0 \/ left <= 1 THEN <<Digits[q + 1]>>
        ELSE <<Digits[q + 1]>> \o FracStr(rem, d, left - 1)

Abs(x) == IF x < 0 THEN -x ELSE x

\* str() of a Python/numpy float whose value is n/d (d > 0): "-997.0", "10.5".
FloatStr(n, d) ==
    LET a == Abs(n)
    IN  (IF n < 0 THEN <<"-">> ELSE <<>>)
        \o NatStr(a \div d) \o <<".">> \o FracStr(a % d, d, MaxFracDigits)

MatchAt(s, p, i) ==
    /\ s[i] = p[1]
    /\ i + Len(p) - 1 <= Len(s)
    /\ SubSeq(s, i, i + Len(p) - 1) = p

\* Index of the first occurrence of p in s at or after i, 0 when absent
\* (str.find); the text is searched a stretch of 16 positions at a time.
RECURSIVE FindFrom(_, _, _)
FindFrom(s, p, i) ==
    LET last == Len(s) - Len(p) + 1
        upto == IF i + 15 < last THEN i + 15 ELSE last
        found == {j \in i..upto : MatchAt(s, p, j)}
    IN  IF i > last THEN 0
        ELSE IF found # {} THEN CHOOSE j \in found : \A k \in found : j <= k
        ELSE FindFrom(s, p, upto + 1)

\* str.replace(old, new, 1): only the first occurrence.
StrReplaceFirst(s, old, new) ==
    LET j == FindFrom(s, old, 1)
    IN  IF j = 0 THEN s
        ELSE SubSeq(s, 1, j - 1) \o new \o SubSeq(s, j + Len(old), Len(s))

\* str.replace(old, new): every non-overlapping occurrence, left to right.
RECURSIVE ReplaceFrom(_, _, _, _)
ReplaceFrom(s, old, new, i) ==
    LET j == FindFrom(s, old, i)
    IN  IF j = 0 THEN SubSeq(s, i, Len(s))
        ELSE SubSeq(s, i, j - 1) \o new \o ReplaceFrom(s, old, new, j + Len(old))

StrReplace(s, old, new) == ReplaceFrom(s, old, new, 1)

\* str.count(p): number of non-overlapping occurrences.
RECURSIVE CountFrom(_, _, _)
CountFrom(s, p, i) ==
    LET j == FindFrom(s, p, i)
    IN  IF j = 0 THEN 0 ELSE 1 + CountFrom(s, p, j + Len(p))

StrCount(s, p) == CountFrom(s, p, 1)

\* The characters of the field "name=" up to the closing comma.
FieldValue(s, name) ==
    LET at == FindFrom(s, name, 1)
        from == at + Len(name)
        comma == FindFrom(s, <<",">>, from)
    IN  IF at = 0 \/ comma = 0 THEN <<>>
        ELSE SubSeq(s, from, comma - 1)

IsDigit(c) == \E k \in 1..10 : Digits[k] = c

DigitVal(c) == (CHOOSE k \in 1..10 : Digits[k] = c) - 1

IsDigits(s) == Len(s) >= 1 /\ \A k \in 1..Len(s) : IsDigit(s[k])

RECURSIVE ParseNat(_)
ParseNat(s) ==
    IF Len(s) = 0 THEN 0
    ELSE ParseNat(SubSeq(s, 1, Len(s) - 1)) * 10 + DigitVal(s[Len(s)])

RECURSIVE Pow10(_)
Pow10(k) == IF k = 0 THEN 1 ELSE 10 * Pow10(k - 1)

\* float() of the text of a decimal number "[-]digits.digits": the rational
\* <<n, d>> it denotes; ok is FALSE for any other text.
ParseFloat(s) ==
    LET neg == Len(s) >= 1 /\ s[1] = "-"
        body == IF neg THEN SubSeq(s, 2, Len(s)) ELSE s
        dot == FindFrom(body, <<".">>, 1)
        whole == SubSeq(body, 1, dot - 1)
        frac == SubSeq(body, dot + 1, Len(body))
    IN  IF dot = 0 \/ ~IsDigits(whole) \/ ~IsDigits(frac)
        THEN [ok |-> FALSE, val |-> <<0, 1>>]
        ELSE [ok |-> TRUE,
              val |-> <<(IF neg THEN -1 ELSE 1)
                            * (ParseNat(whole) * Pow10(Len(frac)) + ParseNat(frac)),
                        Pow10(Len(frac))>>]

\* ---------------------------------------------- create_restraint_files
L_head == <<"\n", "&", "r", "s", "t", "\n", "i", "a", "t", "=", "-", "1", ",", "-", "1", ",", "\n">>
L_r1 == <<"r", "1", "=">>
L_r2 == <<"r", "2", "=">>
L_r3 == <<"r", "3", "=">>
L_r4 == <<"r", "4", "=">>
L_rk2 == <<"r", "k", "2", "=">>
L_rk3 == <<"r", "k", "3", "=">>
L_r2a == <<"r", "2", "a", "=">>
L_igr1 == <<"i", "g", "r", "1", "=">>
L_igr2 == <<"i", "g", "r", "2", "=">>
L_sep == <<",", "\n">>
L_tail == <<"/", "\n">>
dishere == <<"d", "i", "s", "h", "e", "r", "e">>

\* Atom groups of a PDB whose first two residues have two atoms each.
GROUP1 == <<"1", ",", "2">>
GROUP2 == <<"3", ",", "4">>

\* The three texts with the Production rk2 field written from the pulling
\* force constant.
create_restraint_files_skewed(r2, r2a, rk2, rk3, igr1, igr2) ==
    LET r1 == r2 - BufferOffset
        r4 == r2 + BufferOffset
    IN  [ disang_equi |->
              L_head \o L_r1 \o FloatStr(r1, 1) \o L_sep
                     \o L_r2 \o FloatStr(r2, 1) \o L_sep
                     \o L_r3 \o FloatStr(r2, 1) \o L_sep
                     \o L_r4 \o FloatStr(r4, 1) \o L_sep
                     \o L_rk2 \o FloatStr(rk2, 1) \o L_sep
                     \o L_rk3 \o FloatStr(rk2, 1) \o L_sep
                     \o L_igr1 \o igr1 \o L_sep
                     \o L_igr2 \o igr2 \o L_sep \o L_tail,
          disang_pull |->
              L_head \o L_r2 \o FloatStr(r2, 1) \o L_sep
                     \o L_rk2 \o FloatStr(rk2, 1) \o L_sep
                     \o L_r2a \o FloatStr(r2a, 1) \o L_sep
                     \o L_igr1 \o igr1 \o L_sep
                     \o L_igr2 \o igr2 \o L_sep \o L_tail,
          disang_prod |->
              L_head \o L_r1 \o FloatStr(r1, 1) \o L_sep
                     \o L_r2 \o dishere \o L_sep
                     \o L_r3 \o dishere \o L_sep
                     \o L_r4 \o FloatStr(r4, 1) \o L_sep
                     \o L_rk2 \o FloatStr(rk2, 1) \o L_sep
                     \o L_rk3 \o FloatStr(rk3, 1) \o L_sep
                     \o L_igr1 \o igr1 \o L_sep
                     \o L_igr2 \o igr2 \o L_sep \o L_tail ]

\* The three restraint texts written to COM_dist.RST, COM_pull.RST, COM_prod.RST.
create_restraint_files(r2, r2a, rk2, rk3, igr1, igr2) ==
    LET r1 == r2 - BufferOffset
        r4 == r2 + BufferOffset
    IN  [ disang_equi |->
              L_head \o L_r1 \o FloatStr(r1, 1) \o L_sep
                     \o L_r2 \o FloatStr(r2, 1) \o L_sep
                     \o L_r3 \o FloatStr(r2, 1) \o L_sep
                     \o L_r4 \o FloatStr(r4, 1) \o L_sep
                     \o L_rk2 \o FloatStr(rk2, 1) \o L_sep
                     \o L_rk3 \o FloatStr(rk2, 1) \o L_sep
                     \o L_igr1 \o igr1 \o L_sep
                     \o L_igr2 \o igr2 \o L_sep \o L_tail,
          disang_pull |->
              L_head \o L_r2 \o FloatStr(r2, 1) \o L_sep
                     \o L_rk2 \o FloatStr(rk2, 1) \o L_sep
                     \o L_r2a \o FloatStr(r2a, 1) \o L_sep
                     \o L_igr1 \o igr1 \o L_sep
                     \o L_igr2 \o igr2 \o L_sep \o L_tail,
          disang_prod |->
              L_head \o L_r1 \o FloatStr(r1, 1) \o L_sep
                     \o L_r2 \o dishere \o L_sep
                     \o L_r3 \o dishere \o L_sep
                     \o L_r4 \o FloatStr(r4, 1) \o L_sep
                     \o L_rk2 \o FloatStr(rk3, 1) \o L_sep
                     \o L_rk3 \o FloatStr(rk3, 1) \o L_sep
                     \o L_igr1 \o igr1 \o L_sep
                     \o L_igr2 \o igr2 \o L_sep \o L_tail ]

\* The files min_heat_equi_pull.main() leaves in the system directory.
RestraintFiles ==
    create_restraint_files(PULL_DIST_START, PULL_DIST_END,
                           PULL_FORCE_CONST, PROD_FORCE_CONST, GROUP1, GROUP2)

\* ------------------------------------------------------------- numpy pieces
\* A whitespace-delimited table: numeric = every token parses as a float and
\* the rows are rectangular.  The CV value sits in the second column (in the
\* only column of a one-column file); the other columns hold 0.
Row(v, nc) == [j \in 1..nc |-> IF j = (IF nc >= 2 THEN 2 ELSE 1) THEN v ELSE 0]

\* One column (no distance column) or two.
ColumnCounts == {1, 2}

Tables ==
    UNION { UNION { { [i \in 1..nr |-> Row(vs[i], nc)] : vs \in [1..nr -> CVValues] }
                    : nc \in ColumnCounts }
            : nr \in 0..MaxRows }

DataFiles ==
    { [numeric |-> FALSE, rows |-> <<>>] }
        \cup { [numeric |-> TRUE, rows |-> t] : t \in Tables }

\* np.loadtxt: ValueError on a non-numeric file, else the squeezed array.
loadtxt(file) ==
    LET nr == Len(file.rows)
        nc == IF nr = 0 THEN 0 ELSE Len(file.rows[1])
    IN  IF ~file.numeric THEN [ok |-> FALSE, shape |-> <<>>, rows |-> <<>>]
        ELSE [ok |-> TRUE,
              shape |-> IF nr = 0 THEN <<0>>
                        ELSE IF nr = 1 /\ nc = 1 THEN <<>>
                        ELSE IF nr = 1 THEN <<nc>>
                        ELSE IF nc = 1 THEN <<nr>>
                        ELSE <<nr, nc>>,
              rows |-> file.rows]

\* Elements of a 1-D array in order.
Flat1D(arr) ==
    IF Len(arr.rows) = 1 THEN arr.rows[1]
    ELSE [i \in 1..Len(arr.rows) |-> arr.rows[i][1]]

\* data.size
ArraySize(arr) ==
    IF Len(arr.shape) = 0 THEN 1
    ELSE IF Len(arr.shape) = 1 THEN arr.shape[1]
    ELSE arr.shape[1] * arr.shape[2]

\* A column read that takes a 1-D array for a column of values.
Column1Lenient(arr) ==
    IF Len(arr.shape) = 2 /\ arr.shape[2] >= 2
    THEN [ok |-> TRUE, vals |-> [i \in 1..Len(arr.rows) |-> arr.rows[i][2]]]
    ELSE IF Len(arr.shape) = 1 /\ arr.shape[1] >= 1
    THEN [ok |-> TRUE,
          vals |-> IF Len(arr.rows) = 1 THEN arr.rows[1]
                   ELSE [i \in 1..Len(arr.rows) |-> arr.rows[i][1]]]
    ELSE [ok |-> FALSE, vals |-> <<>>]

\* data[:, 1]: IndexError unless the array is 2-D with a second column.
Column1(arr) ==
    IF Len(arr.shape) = 2 /\ arr.shape[2] >= 2
    THEN [ok |-> TRUE, vals |-> [i \in 1..Len(arr.rows) |-> arr.rows[i][2]]]
    ELSE [ok |-> FALSE, vals |-> <<>>]

\* np.linspace(start, stop, num, endpoint=False).
linspace_noendpoint(start, stop, num) ==
    IF num = 0 THEN <<>>
    ELSE [i \in 1..num |-> <<start * num + (i - 1) * (stop - start), num>>]

\* A linspace that sets the last sample to stop also when it is the only one.
linspace_laststop(start, stop, num) ==
    IF num = 0 THEN <<>>
    ELSE [i \in 1..num |->
             IF i = num THEN <<stop, 1>>
             ELSE <<start * (num - 1) + (i - 1) * (stop - start), num - 1>>]

\* np.linspace(start, stop, num) for num >= 0, as rationals <<n, d>>.
linspace(start, stop, num) ==
    LET div == num - 1
    IN  IF num = 0 THEN <<>>
        ELSE IF div = 0 THEN << <<start, 1>> >>
        ELSE [i \in 1..num |->
                 IF i = num THEN <<stop * div, div>>
                 ELSE <<start * div + (i - 1) * (stop - start), div>>]

\* |v - c| scaled by the denominator of c.
AbsDiff(v, c) == Abs(v * c[2] - c[1])

\* np.argmin over |com_values - center|: scan keeping the first strict minimum;
\* 0-based result.  The array is non-empty.
RECURSIVE ArgminScan(_, _, _, _)
ArgminScan(vals, c, i, best) ==
    IF i > Len(vals) THEN best - 1
    ELSE IF AbsDiff(vals[i], c) < AbsDiff(vals[best], c)
         THEN ArgminScan(vals, c, i + 1, i)
         ELSE ArgminScan(vals, c, i + 1, best)

\* A scan that keeps the last of several equal minima.
RECURSIVE ArgminScanLast(_, _, _, _)
ArgminScanLast(vals, c, i, best) ==
    IF i > Len(vals) THEN best - 1
    ELSE IF AbsDiff(vals[i], c) <= AbsDiff(vals[best], c)
         THEN ArgminScanLast(vals, c, i + 1, i)
         ELSE ArgminScanLast(vals, c, i + 1, best)

argmin_last(vals, c) == ArgminScanLast(vals, c, 2, 1)

argmin(vals, c) == ArgminScan(vals, c, 2, 1)

\* ------------------------------------------------------------------ state
VARIABLES
    pc,              \* position inside prepare_windows
    system_name,     \* "" (None) or the system folder name
    sysdir,          \* where the system folder is: "here", "rel", "bdp", "notfound"
    n_windows,
    submit_jobs,
    cwd,             \* process working directory: "orig", "rel", "bdp"
    missing,         \* required files absent from the working directory
    pull_dist,       \* content of pull_dist.dat as read
    com_values,
    nc_frames,       \* len(nc_data['coordinates']); -1 until read or unreadable
    n_frames,        \* the local n_frames; -1 until set
    window_centers,
    frame_indices,
    scriptWritten,   \* frame.cpptraj was written by this run
    script,          \* its trajout lines: [out |-> i, frame |-> f]
    cpptraj,         \* result of the cpptraj subprocess
    rstFiles,        \* i such that window_i.rst exists after extraction
    dirs,            \* i such that directory window_i exists
    dirFiles,        \* files inside window_i
    dirRST,          \* text of window_i/COM_prod.RST
    window_commands, \* window ids, one per composed command
    submitted,       \* sbatch attempts: [window |-> i, status |-> s]
    i_loop,          \* loop variable i of the build loop
    outcome,         \* how the call ended
    reported,        \* file named in the "Required file ... not found" message
    result,          \* returned list (window ids of the commands)
    first_run,       \* the window directories an earlier, completed call left
    rd_file,         \* a CV time-series file handed to the readers
    rd_prepare,      \* what the window selector's load makes of rd_file
    rd_load,         \* what load_restraint_data makes of it
    rd_analyze,      \* what analyze_restraint_effectiveness makes of it
    folder,          \* the analysed folder: window_w, its dist.dat and COM_prod.RST
    windows_data,    \* us_check: window -> loaded distances
    target_distances,\* us_check: window -> target, where it came from, what was printed
    quality_df,      \* us_check: rows of analyze_window_quality
    insufficient_overlap, \* us_check: <<w1, w2, reason>> of check_window_overlap
    min_overlap,     \* the ratio check_window_overlap was called with
    cs_results,      \* check_sampling: rows of analyze_restraint_effectiveness
    exit_status,     \* exit status of the analysis script; -1 while it runs
    metadata,        \* pmf.py: the lines of metadata.dat
    num_windows      \* pmf.py: its window count; -1 until the script runs

pwvars == <<pc, system_name, sysdir, n_windows, submit_jobs, cwd, missing,
            pull_dist, com_values, nc_frames, n_frames, window_centers,
            frame_indices, scriptWritten, script, cpptraj, rstFiles, dirs, dirFiles, dirRST,
            window_commands, submitted, i_loop, outcome, reported, result,
            first_run>>

rdvars == <<rd_file, rd_prepare, rd_load, rd_analyze>>

pmfvars == <<metadata, num_windows>>

anvars == <<folder, windows_data, target_distances, quality_df,
            insufficient_overlap, min_overlap, cs_results, exit_status,
            pmfvars>>

\* Everything of prepare_windows but its position.
pwstate == <<system_name, sysdir, n_windows, submit_jobs, cwd, missing,
             pull_dist, com_values, nc_frames, n_frames, window_centers,
             frame_indices, scriptWritten, script, cpptraj, rstFiles, dirs,
             dirFiles, dirRST, window_commands, submitted, i_loop, outcome,
             reported, result, first_run>>

vars == <<pwvars, rdvars, anvars>>

WindowIds == 0..(MaxWindows - 1)

required_files == <<"pull_dist.dat", "pull.nc", "bdp-btb-acetonitrile.prmtop",
                    "COM_prod.RST", "prod.in">>

NoFile == [numeric |-> FALSE, rows |-> <<>>]
Unread == [read |-> FALSE, ok |-> FALSE, vals |-> <<>>]
NoRun == [ran |-> FALSE, returncode |-> 0, outError |-> FALSE,
          errError |-> FALSE, outFailed |-> FALSE]

NoFirstRun == [done |-> FALSE,
               dirFiles |-> [w \in WindowIds |-> {}],
               dirRST |-> [w \in WindowIds |-> <<>>]]

PWFresh ==
    /\ system_name \in {"", "sys"}
    /\ sysdir \in (IF system_name = "" THEN {"here"}
                   ELSE {"here", "rel", "bdp", "notfound"})
    /\ n_windows \in (-1)..MaxWindows
    /\ submit_jobs \in BOOLEAN
    /\ cwd = "orig"
    /\ missing = {}
    /\ pull_dist = NoFile
    /\ com_values = <<>>
    /\ nc_frames = -1
    /\ n_frames = -1
    /\ window_centers = <<>>
    /\ frame_indices = <<>>
    /\ scriptWritten = FALSE
    /\ script = <<>>
    /\ cpptraj = NoRun
    /\ rstFiles = {}
    /\ dirs = {}
    /\ dirFiles = [w \in WindowIds |-> {}]
    /\ dirRST = [w \in WindowIds |-> <<>>]
    /\ window_commands = <<>>
    /\ submitted = <<>>
    /\ i_loop = 0
    /\ outcome = ""
    /\ reported = ""
    /\ result = <<>>
    /\ first_run = NoFirstRun

RDIdle ==
    /\ rd_file = NoFile
    /\ rd_prepare = Unread
    /\ rd_load = Unread
    /\ rd_analyze = Unread

\* pmf.py has not run.
PMFIdle ==
    /\ metadata = <<>>
    /\ num_windows = -1

\* No analysis script has been started.
NoDistFile == [exists |-> FALSE, file |-> NoFile]
NoRstFile == [exists |-> FALSE, readable |-> FALSE, text |-> <<>>]
NoTarget == [set |-> FALSE, val |-> <<0, 1>>, source |-> "", message |-> ""]

ANIdle ==
    /\ folder = [w \in WindowIds |->
                    [isdir |-> FALSE, dist |-> NoDistFile, rst |-> NoRstFile]]
    /\ windows_data = [w \in WindowIds |-> [loaded |-> FALSE, vals |-> <<>>]]
    /\ target_distances = [w \in WindowIds |-> NoTarget]
    /\ quality_df = <<>>
    /\ insufficient_overlap = <<>>
    /\ min_overlap = <<1, 10>>
    /\ cs_results = <<>>
    /\ exit_status = -1
    /\ PMFIdle

\* A `return []` that leaves the process in the system directory.
ReturnEmptyStay(why) ==
    /\ pc' = "done"
    /\ outcome' = why
    /\ result' = <<>>
    /\ cwd' = cwd

\* `return []` on an error path: chdir back when a system name was given.
ReturnEmpty(why) ==
    /\ pc' = "done"
    /\ outcome' = why
    /\ result' = <<>>
    /\ cwd' = IF system_name # "" THEN "orig" ELSE cwd

\* An exception nothing catches: the call never returns.
Raise(exc) ==
    /\ pc' = "crashed"
    /\ outcome' = exc
    /\ UNCHANGED <<result, cwd>>

\* lines 26-52
ResolveDir ==
    /\ pc = "start"
    /\ UNCHANGED <<rdvars, anvars, first_run>>
    /\ IF system_name # "" /\ sysdir = "notfound"
       THEN /\ pc' = "done"
            /\ outcome' = "dir_not_found"
            /\ UNCHANGED <<result, cwd>>
       ELSE /\ pc' = "check"
            /\ cwd' = IF system_name # "" /\ sysdir \in {"rel", "bdp"}
                      THEN sysdir ELSE cwd
            /\ UNCHANGED <<outcome, result>>
    /\ UNCHANGED <<system_name, sysdir, n_windows, submit_jobs, missing,
                   pull_dist, com_values, n_frames, nc_frames, window_centers,
                   frame_indices, scriptWritten, script, cpptraj, rstFiles,
                   dirs, dirFiles, dirRST, window_commands, submitted, i_loop,
                   reported>>

\* First entry of required_files that is missing.
FirstMissing(m) ==
    LET k == CHOOSE k \in 1..Len(required_files) :
                 /\ required_files[k] \in m
                 /\ \A j \in 1..(k - 1) : required_files[j] \notin m
    IN  required_files[k]

\* lines 54-65
CheckRequired ==
    /\ pc = "check"
    /\ UNCHANGED <<rdvars, anvars, first_run>>
    /\ \E m \in (IF first_run.done THEN {missing}
                ELSE SUBSET {required_files[k] : k \in 1..Len(required_files)}) :
         /\ missing' = m
         /\ IF m # {}
            THEN /\ reported' = FirstMissing(m)
                 /\ ReturnEmpty("missing_file")
            ELSE /\ pc' = "load"
                 /\ UNCHANGED <<reported, outcome, result, cwd>>
    /\ UNCHANGED <<system_name, sysdir, n_windows, submit_jobs, pull_dist,
                   com_values, n_frames, nc_frames, window_centers, frame_indices,
                   scriptWritten, script, cpptraj, rstFiles, dirs, dirFiles,
                   dirRST, window_commands, submitted, i_loop>>

\* The window selector's reader: np.loadtxt then data[:, 1], any exception caught.
ReadCV_prepare(file) ==
    LET data == loadtxt(file)
    IN  IF ~data.ok THEN [ok |-> FALSE, vals |-> <<>>]
        ELSE Column1(data)

\* lines 67-77
LoadCV ==
    /\ pc = "load"
    /\ UNCHANGED <<rdvars, anvars, first_run>>
    /\ \E f \in (IF first_run.done THEN {pull_dist} ELSE DataFiles) :
         /\ pull_dist' = f
         /\ LET r == ReadCV_prepare(f)
            IN  IF r.ok
                THEN /\ com_values' = r.vals
                     /\ pc' = "nc"
                     /\ UNCHANGED <<outcome, result, cwd>>
                ELSE /\ UNCHANGED com_values
                     /\ ReturnEmpty("load_error")
    /\ UNCHANGED <<system_name, sysdir, n_windows, submit_jobs, missing,
                   n_frames, nc_frames, window_centers, frame_indices, scriptWritten,
                   script, cpptraj, rstFiles, dirs, dirFiles, dirRST,
                   window_commands, submitted, i_loop, reported>>

Min(a, b) == IF a < b THEN a ELSE b

\* lines 79-92; nf = -1 stands for an unreadable trajectory
ReadNC ==
    /\ pc = "nc"
    /\ UNCHANGED <<rdvars, anvars, first_run>>
    /\ \E nf \in (IF first_run.done THEN {nc_frames} ELSE (-1)..MaxRows) :
         /\ nc_frames' = nf
         /\ IF nf = -1
            THEN /\ UNCHANGED <<n_frames, com_values>>
                 /\ ReturnEmpty("nc_error")
            ELSE /\ IF nf # Len(com_values)
                    THEN /\ n_frames' = Min(nf, Len(com_values))
                         /\ com_values' = SubSeq(com_values, 1, Min(nf, Len(com_values)))
                    ELSE /\ n_frames' = nf
                         /\ UNCHANGED com_values
                 /\ pc' = "centers"
                 /\ UNCHANGED <<outcome, result, cwd>>
    /\ UNCHANGED <<system_name, sysdir, n_windows, submit_jobs, missing,
                   pull_dist, window_centers, frame_indices, scriptWritten,
                   script, cpptraj, rstFiles, dirs, dirFiles, dirRST,
                   window_commands, submitted, i_loop, reported>>

\* line 97; np.linspace raises ValueError for a negative count
ComputeCenters ==
    /\ pc = "centers"
    /\ UNCHANGED <<rdvars, anvars, first_run>>
    /\ IF n_windows < 0
       THEN /\ Raise("ValueError")
            /\ UNCHANGED window_centers
       ELSE /\ window_centers' = linspace(min_com, max_com, n_windows)
            /\ pc' = "select"
            /\ UNCHANGED <<outcome, result, cwd>>
    /\ UNCHANGED <<system_name, sysdir, n_windows, submit_jobs, missing,
                   pull_dist, com_values, n_frames, nc_frames, frame_indices,
                   scriptWritten, script, cpptraj, rstFiles, dirs, dirFiles,
                   dirRST, window_commands, submitted, i_loop, reported>>

\* lines 99-103; np.argmin raises ValueError on an empty array
SelectFrames ==
    /\ pc = "select"
    /\ UNCHANGED <<rdvars, anvars, first_run>>
    /\ IF Len(window_centers) > 0 /\ Len(com_values) = 0
       THEN /\ Raise("ValueError")
            /\ UNCHANGED frame_indices
       ELSE /\ frame_indices' = [k \in 1..Len(window_centers) |->
                                    argmin(com_values, window_centers[k])]
            /\ pc' = "script"
            /\ UNCHANGED <<outcome, result, cwd>>
    /\ UNCHANGED <<system_name, sysdir, n_windows, submit_jobs, missing,
                   pull_dist, com_values, n_frames, nc_frames, window_centers,
                   scriptWritten, script, cpptraj, rstFiles, dirs, dirFiles,
                   dirRST, window_commands, submitted, i_loop, reported>>

\* lines 109-115
WriteScript ==
    /\ pc = "script"
    /\ UNCHANGED <<rdvars, anvars, first_run>>
    /\ scriptWritten' = TRUE
    /\ script' = [k \in 1..Len(frame_indices) |->
                     [out |-> k - 1, frame |-> frame_indices[k]]]
    /\ pc' = "cpptraj"
    /\ UNCHANGED <<system_name, sysdir, n_windows, submit_jobs, cwd, missing,
                   pull_dist, com_values, n_frames, nc_frames, window_centers,
                   frame_indices, cpptraj, rstFiles, dirs, dirFiles, dirRST,
                   window_commands, submitted, i_loop, outcome, reported,
                   result>>

\* A test that looks at the exit status only.
CpptrajFailedStatusOnly(r) == r.returncode # 0

\* The test of line 122 on a finished subprocess.
CpptrajFailed(r) ==
    r.returncode # 0 \/ r.outError \/ r.errError \/ r.outFailed

\* The outputs a clean extraction can leave: window_k.rst for each trajout
\* line, or all but one of them (a frame number cpptraj does not find).
ExtractionOutputs ==
    LET all == {script[k].out : k \in 1..Len(script)}
    IN  {all} \cup {all \ {k} : k \in all}

\* What a finished cpptraj reports, as far as line 122 reads it: the exit
\* status, "Error" on stdout, "Error" on stderr, "Failed" on stdout.
CpptrajResults ==
    [ran : {TRUE}, returncode : {0, 1}, outError : BOOLEAN,
     errError : BOOLEAN, outFailed : BOOLEAN]

\* lines 117-131; launched = FALSE: the cpptraj executable cannot be started
RunCpptraj ==
    /\ pc = "cpptraj"
    /\ UNCHANGED <<rdvars, anvars, first_run>>
    /\ \E launched \in BOOLEAN :
         IF ~launched
         THEN /\ Raise("FileNotFoundError")
              /\ UNCHANGED <<cpptraj, rstFiles>>
         ELSE \E r \in (IF first_run.done THEN {cpptraj} ELSE CpptrajResults) :
                /\ cpptraj' = r
                /\ IF CpptrajFailed(r)
                   THEN /\ UNCHANGED rstFiles
                        /\ ReturnEmpty("cpptraj_error")
                   ELSE /\ \E produced \in (IF first_run.done THEN {rstFiles}
                                           ELSE ExtractionOutputs) :
                             rstFiles' = produced
                        /\ pc' = "build"
                        /\ UNCHANGED <<outcome, result, cwd>>
    /\ UNCHANGED <<system_name, sysdir, n_windows, submit_jobs, missing,
                   pull_dist, com_values, n_frames, nc_frames, window_centers,
                   frame_indices, scriptWritten, script, dirs, dirFiles,
                   dirRST, window_commands, submitted, i_loop, reported>>

\* The text prepare_windows writes to window_i/COM_prod.RST (lines 150-155):
\* the copied template with "dishere" replaced by str(window_centers[i]).
ResolveTemplate(template, center) ==
    StrReplace(template, dishere, FloatStr(center[1], center[2]))

\* The window index in place of its center.
WindowTargetIndex(w) == <<w, 1>>

\* window_centers[i] of line 153.
WindowTarget(w) == window_centers[w + 1]

\* Files the four cp commands of lines 145-148 leave in window_i; a cp whose
\* source is missing fails without stopping the loop.
CopiedFiles(w) ==
    {"COM_prod.RST", "prod.in", "bdp-btb-acetonitrile.prmtop"}
        \cup (IF w \in rstFiles THEN {"window.rst"} ELSE {})

\* A copy that appends to a COM_prod.RST already in the window directory.
CopyTemplateAppend(w) ==
    IF w \in dirs THEN dirRST[w] \o RestraintFiles.disang_prod
    ELSE RestraintFiles.disang_prod

\* window_i/COM_prod.RST after `cp COM_prod.RST window_i/` (line 145): the
\* shared template, whatever the directory held before.
CopyTemplate(w) == RestraintFiles.disang_prod

\* lines 138-185, one iteration of the build loop for i = i_loop
BuildWindow ==
    /\ pc = "build"
    /\ UNCHANGED <<rdvars, anvars, first_run>>
    /\ i_loop < n_windows
    /\ dirs' = dirs \cup {i_loop}
    /\ dirRST' = [dirRST EXCEPT ![i_loop] =
                     ResolveTemplate(CopyTemplate(i_loop),
                                     WindowTarget(i_loop))]
    /\ window_commands' = Append(window_commands, i_loop)
    /\ i_loop' = i_loop + 1
    /\ IF submit_jobs
       THEN /\ dirFiles' = [dirFiles EXCEPT ![i_loop] =
                               @ \cup CopiedFiles(i_loop) \cup {"job.sh"}]
            /\ \E st \in {"ok", "nonzero", "nolaunch"} :
                 /\ submitted' = Append(submitted, [window |-> i_loop, status |-> st])
                 /\ IF st = "nolaunch"
                    THEN Raise("FileNotFoundError")
                    ELSE UNCHANGED <<pc, outcome, result, cwd>>
       ELSE /\ dirFiles' = [dirFiles EXCEPT ![i_loop] = @ \cup CopiedFiles(i_loop)]
            /\ UNCHANGED <<submitted, pc, outcome, result, cwd>>
    /\ UNCHANGED <<system_name, sysdir, n_windows, submit_jobs, missing,
                   pull_dist, com_values, n_frames, nc_frames, window_centers,
                   frame_indices, scriptWritten, script, cpptraj, rstFiles,
                   reported>>

\* lines 187-191
Finish ==
    /\ pc = "build"
    /\ UNCHANGED <<rdvars, anvars, first_run>>
    /\ i_loop >= n_windows
    /\ pc' = "done"
    /\ outcome' = "ok"
    /\ result' = window_commands
    /\ cwd' = IF system_name # "" THEN "orig" ELSE cwd
    /\ UNCHANGED <<system_name, sysdir, n_windows, submit_jobs, missing,
                   pull_dist, com_values, n_frames, nc_frames, window_centers,
                   frame_indices, scriptWritten, script, cpptraj, rstFiles,
                   dirs, dirFiles, dirRST, window_commands, submitted, i_loop,
                   reported>>

\* A second run of the script with the same arguments after a completed one.
\* The files on disk are what the first run left; the shared inputs, the
\* trajectory and what cpptraj does are as in the first run.
Rerun ==
    /\ pc = "done"
    /\ outcome = "ok"
    /\ ~first_run.done
    /\ UNCHANGED <<rdvars, anvars>>
    /\ first_run' = [done |-> TRUE, dirFiles |-> dirFiles, dirRST |-> dirRST]
    /\ pc' = "start"
    /\ com_values' = <<>>
    /\ n_frames' = -1
    /\ window_centers' = <<>>
    /\ frame_indices' = <<>>
    /\ scriptWritten' = FALSE
    /\ script' = <<>>
    /\ window_commands' = <<>>
    /\ submitted' = <<>>
    /\ i_loop' = 0
    /\ outcome' = ""
    /\ reported' = ""
    /\ result' = <<>>
    /\ UNCHANGED <<system_name, sysdir, n_windows, submit_jobs, cwd, missing,
                   pull_dist, nc_frames, cpptraj, rstFiles, dirs, dirFiles,
                   dirRST>>

\* main() of windows.py: exit status once prepare_windows has returned.
ExitStatus == IF result # <<>> THEN 0 ELSE 1

prepare_windows ==
    \/ ResolveDir
    \/ CheckRequired
    \/ LoadCV
    \/ ReadNC
    \/ ComputeCenters
    \/ SelectFrames
    \/ WriteScript
    \/ RunCpptraj
    \/ BuildWindow
    \/ Finish

Init ==
    /\ pc = "start"
    /\ PWFresh
    /\ RDIdle
    /\ ANIdle

Next == prepare_windows

Spec == Init /\ [][Next]_vars

\* The script run once and, after a completed run, once more.
NextRerun ==
    \/ prepare_windows
    \/ Rerun

SpecRerun == Init /\ [][NextRerun]_vars

\* ------------------------------------------------ CV time-series readers
\* load_restraint_data, lines 41-59, for one existing dist.dat: ok when
\* windows_data[window_num] is set.
ReadCV_load(file) ==
    LET data == loadtxt(file)
    IN  IF ~data.ok THEN [ok |-> FALSE, vals |-> <<>>]
        ELSE IF ArraySize(data) = 0 THEN [ok |-> FALSE, vals |-> <<>>]
        ELSE IF Len(data.shape) = 1
             THEN IF data.shape[1] >= 2
                  THEN [ok |-> TRUE, vals |-> <<Flat1D(data)[2]>>]
                  ELSE [ok |-> FALSE, vals |-> <<>>]
        ELSE Column1(data)

\* analyze_restraint_effectiveness, lines 34-47, for one existing dist.dat:
\* ok when `distances` is set.
ReadCV_analyze(file) ==
    LET data == loadtxt(file)
    IN  IF ~data.ok THEN [ok |-> FALSE, vals |-> <<>>]
        ELSE IF Len(data.shape) = 1
             THEN IF data.shape[1] >= 2
                  THEN [ok |-> TRUE, vals |-> <<Flat1D(data)[2]>>]
                  ELSE [ok |-> FALSE, vals |-> <<>>]
        ELSE IF Len(data.shape) = 2 /\ data.shape[2] >= 2
             THEN Column1(data)
             ELSE [ok |-> FALSE, vals |-> <<>>]

Read(r) == [read |-> TRUE, ok |-> r.ok, vals |-> r.vals]

ReadByPrepare ==
    /\ pc = "readers"
    /\ ~rd_prepare.read
    /\ rd_prepare' = Read(ReadCV_prepare(rd_file))
    /\ UNCHANGED <<pwvars, anvars, rd_file, rd_load, rd_analyze>>

ReadByLoad ==
    /\ pc = "readers"
    /\ ~rd_load.read
    /\ rd_load' = Read(ReadCV_load(rd_file))
    /\ UNCHANGED <<pwvars, anvars, rd_file, rd_prepare, rd_analyze>>

ReadByAnalyze ==
    /\ pc = "readers"
    /\ ~rd_analyze.read
    /\ rd_analyze' = Read(ReadCV_analyze(rd_file))
    /\ UNCHANGED <<pwvars, anvars, rd_file, rd_prepare, rd_load>>

InitReaders ==
    /\ pc = "readers"
    /\ PWFresh
    /\ system_name = ""
    /\ n_windows = 0
    /\ submit_jobs = FALSE
    /\ rd_file \in DataFiles
    /\ rd_prepare = Unread
    /\ rd_load = Unread
    /\ rd_analyze = Unread
    /\ ANIdle

NextReaders ==
    \/ ReadByPrepare
    \/ ReadByLoad
    \/ ReadByAnalyze

SpecReaders == InitReaders /\ [][NextReaders]_vars

\* ------------------------------------------------- analysis: pure pieces
\* Fewest samples a window needs to be assessed (the literal 10).
MinSamples == 10

\* The number a dist.dat cell stands for: cells count half units (13 is 6.5).
CellValue(v) == <<v, 2>>

\* A two-column table of nr rows whose distances run from lo (first row) to hi.
LongTable(nr, lo, hi) == [i \in 1..nr |-> Row(IF i = 1 THEN lo ELSE hi, 2)]

\* Observed [min, max] ranges: [5,7], [6.5,9], [7,9], [7.5,9], the point 7 and
\* the point 3 (the target of window 0).
SampleRanges ==
    {<<10, 14>>, <<13, 18>>, <<14, 18>>, <<15, 18>>, <<14, 14>>, <<6, 6>>}

\* What window_w/dist.dat can be: absent, not numeric, empty, too short
\* (one row, MinSamples - 1 rows) or MinSamples rows over one of the ranges.
DistFiles ==
    {NoDistFile}
        \cup {[exists |-> TRUE, file |-> NoFile],
              [exists |-> TRUE, file |-> [numeric |-> TRUE, rows |-> <<>>]]}
        \cup {[exists |-> TRUE,
               file |-> [numeric |-> TRUE, rows |-> LongTable(n, 10, 14)]]
                  : n \in {1, MinSamples - 1}}
        \cup {[exists |-> TRUE,
               file |-> [numeric |-> TRUE,
                         rows |-> LongTable(MinSamples, r[1], r[2])]]
                  : r \in SampleRanges}

RECURSIVE SortedSeq(_)
SortedSeq(S) ==
    IF S = {} THEN <<>>
    ELSE LET m == CHOOSE x \in S : \A y \in S : x <= y
         IN  <<m>> \o SortedSeq(S \ {m})

RECURSIVE SeqSum(_)
SeqSum(q) == IF Len(q) = 0 THEN 0 ELSE q[1] + SeqSum(Tail(q))

SeqMin(q) == CHOOSE x \in {q[k] : k \in 1..Len(q)} : \A k \in 1..Len(q) : x <= q[k]
SeqMax(q) == CHOOSE x \in {q[k] : k \in 1..Len(q)} : \A k \in 1..Len(q) : x >= q[k]

\* Comparison and difference of rationals with positive denominators.
RatEq(a, b) == a[1] * b[2] = b[1] * a[2]
RatLess(a, b) == a[1] * b[2] < b[1] * a[2]
RatDiff(a, b) == <<a[1] * b[2] - b[1] * a[2], a[2] * b[2]>>

\* |a - b| for rationals with positive denominators.
RatAbsDiff(a, b) == <<Abs(a[1] * b[2] - b[1] * a[2]), a[2] * b[2]>>

\* us_check.load_restraint_data: one entry per window directory whose
\* dist.dat exists and is accepted by lines 41-55.
load_restraint_data(fld) ==
    [w \in WindowIds |->
        IF fld[w].isdir /\ fld[w].dist.exists
        THEN LET r == ReadCV_load(fld[w].dist.file)
             IN  [loaded |-> r.ok, vals |-> r.vals]
        ELSE [loaded |-> FALSE, vals |-> <<>>]]

Loaded(data) == {w \in WindowIds : data[w].loaded}

\* ----- get_target_distances
WhiteSpace == {" ", "\t", "\n"}

\* First index at or after i that holds no white space.
RECURSIVE SkipWS(_, _)
SkipWS(s, i) ==
    IF i <= Len(s) /\ s[i] \in WhiteSpace THEN SkipWS(s, i + 1) ELSE i

\* First index at or after i that holds no digit.
RECURSIVE DigitsEnd(_, _)
DigitsEnd(s, i) ==
    IF i <= Len(s) /\ IsDigit(s[i]) THEN DigitsEnd(s, i + 1) ELSE i

\* The group of name\s*=\s*(\d+\.\d+) matched with name at j; <<>> for no match.
TargetGroupAt(s, name, j) ==
    LET eq == SkipWS(s, j + Len(name))
        num == SkipWS(s, eq + 1)
        dot == DigitsEnd(s, num)
        stop == DigitsEnd(s, dot + 1)
    IN  IF /\ MatchAt(s, name, j)
           /\ eq <= Len(s) /\ s[eq] = "="
           /\ dot > num
           /\ dot <= Len(s) /\ s[dot] = "."
           /\ stop > dot + 1
        THEN SubSeq(s, num, stop - 1)
        ELSE <<>>

\* re.search: the group of the leftmost match, <<>> when there is none.
re_search(s, name) ==
    LET hits == {j \in 1..Len(s) : TargetGroupAt(s, name, j) # <<>>}
    IN  IF hits = {} THEN <<>>
        ELSE TargetGroupAt(s, name, CHOOSE j \in hits : \A k \in hits : j <= k)

\* 0.45 + window_num * 0.1
EstimatedTarget(w) == <<9 + 2 * w, 20>>

\* Lines 86-112 for one window directory: the target, whether it was read from
\* r2, r3 or estimated, and the message printed about it.
TargetOf(w, rst) ==
    IF ~rst.exists
    THEN [set |-> TRUE, val |-> EstimatedTarget(w), source |-> "estimate",
          message |-> "Warning: Restraint file not found"]
    ELSE IF ~rst.readable
    THEN [set |-> TRUE, val |-> EstimatedTarget(w), source |-> "estimate",
          message |-> "Error reading"]
    ELSE LET r2_match == re_search(rst.text, <<"r", "2">>)
             r3_match == re_search(rst.text, <<"r", "3">>)
         IN  IF r2_match # <<>>
             THEN [set |-> TRUE, val |-> ParseFloat(r2_match).val,
                   source |-> "r2", message |-> ""]
             ELSE IF r3_match # <<>>
             THEN [set |-> TRUE, val |-> ParseFloat(r3_match).val,
                   source |-> "r3", message |-> ""]
             ELSE [set |-> TRUE, val |-> EstimatedTarget(w), source |-> "estimate",
                   message |-> "Warning: Could not find target distance, using estimated value"]

get_target_distances(fld) ==
    [w \in WindowIds |-> IF fld[w].isdir THEN TargetOf(w, fld[w].rst) ELSE NoTarget]

\* ----- analyze_window_quality
\* np.mean of the loaded cells.
MeanOf(vals) == <<SeqSum(vals), 2 * Len(vals)>>

\* Lines 177-220 for one loaded window.
QualityRow(w, vals, target) ==
    IF Len(vals) < MinSamples
    THEN [window |-> w, target |-> target.val, has_target |-> target.set,
          samples |-> Len(vals), has_avg |-> FALSE, avg_distance |-> <<0, 1>>,
          status |-> "Insufficient data", quality |-> 0]
    ELSE LET avg_dist == MeanOf(vals)
             target_error == RatAbsDiff(avg_dist, target.val)
         IN  [window |-> w, target |-> target.val, has_target |-> target.set,
              samples |-> Len(vals), has_avg |-> TRUE, avg_distance |-> avg_dist,
              status |-> IF ~target.set THEN "Unknown target"
                         ELSE IF RatLess(target_error, <<1, 20>>) THEN "Good"
                         ELSE IF RatLess(target_error, <<1, 10>>) THEN "Fair"
                         ELSE "Poor",
              quality |-> IF ~target.set THEN 1
                          ELSE IF RatLess(target_error, <<1, 20>>) THEN 3
                          ELSE IF RatLess(target_error, <<1, 10>>) THEN 2
                          ELSE 1]

analyze_window_quality(data, targets) ==
    LET nums == SortedSeq(Loaded(data))
    IN  [k \in 1..Len(nums) |->
            QualityRow(nums[k], data[nums[k]].vals, targets[nums[k]])]

\* ----- check_window_overlap
Max(a, b) == IF a > b THEN a ELSE b

\* A comparison that takes ranges meeting in one point as overlapping.
PairVerdictStrict(data1, data2, m) ==
    IF Len(data1) < MinSamples \/ Len(data2) < MinSamples
    THEN [reason |-> "Insufficient data", overlap |-> 0, divisors |-> <<>>]
    ELSE LET range1 == SeqMax(data1) - SeqMin(data1)
             range2 == SeqMax(data2) - SeqMin(data2)
             overlap_min == Max(SeqMin(data1), SeqMin(data2))
             overlap_max == Min(SeqMax(data1), SeqMax(data2))
             overlap == overlap_max - overlap_min
             divided == <<range1, range2>>
         IN  IF overlap_max < overlap_min
             THEN [reason |-> "No overlap", overlap |-> 0, divisors |-> <<>>]
             ELSE IF \/ overlap * m[2] < m[1] * range1
                     \/ overlap * m[2] < m[1] * range2
             THEN [reason |-> "Overlap", overlap |-> overlap,
                   divisors |-> divided]
             ELSE [reason |-> "", overlap |-> overlap, divisors |-> divided]

\* Lines 238-264 for one pair: the reason it is flagged with, "" when it is
\* not flagged; m is min_overlap as <<n, d>>.  divisors holds the right-hand
\* operands of the two divisions of lines 260-261 when they are evaluated;
\* overlap / range < m is decided as overlap * m[2] < m[1] * range, the same
\* for a range above zero.
PairVerdict(data1, data2, m) ==
    IF Len(data1) < MinSamples \/ Len(data2) < MinSamples
    THEN [reason |-> "Insufficient data", overlap |-> 0, divisors |-> <<>>]
    ELSE LET min1 == SeqMin(data1)
             max1 == SeqMax(data1)
             min2 == SeqMin(data2)
             max2 == SeqMax(data2)
             range1 == max1 - min1
             range2 == max2 - min2
             overlap_min == Max(min1, min2)
             overlap_max == Min(max1, max2)
             overlap == overlap_max - overlap_min
             divided == <<range1, range2>>
         IN  IF overlap_max <= overlap_min
             THEN [reason |-> "No overlap", overlap |-> 0, divisors |-> <<>>]
             ELSE IF \/ overlap * m[2] < m[1] * range1
                     \/ overlap * m[2] < m[1] * range2
             THEN [reason |-> "Overlap", overlap |-> overlap,
                   divisors |-> divided]
             ELSE [reason |-> "", overlap |-> overlap, divisors |-> divided]

\* Lines 232-236: the pairs the loop visits, in order.
Neighbours(nums) ==
    [i \in 1..(IF Len(nums) >= 1 THEN Len(nums) - 1 ELSE 0) |->
        <<nums[i], nums[i + 1]>>]

check_window_overlap(data, m) ==
    LET pairs == Neighbours(SortedSeq(Loaded(data)))
        verdicts == [i \in 1..Len(pairs) |->
                        LET v == PairVerdict(data[pairs[i][1]].vals,
                                             data[pairs[i][2]].vals, m)
                        IN  [w1 |-> pairs[i][1], w2 |-> pairs[i][2],
                             reason |-> v.reason, overlap |-> v.overlap]]
        Flagged(v) == v.reason # ""
    IN  SelectSeq(verdicts, Flagged)

\* ----- check_sampling.analyze_restraint_effectiveness
\* |distance - target| * 20 for a cell v and the estimated target of window w.
Deviation20(v, w) == Abs(10 * v - (9 + 2 * w))

\* Lines 26-61 for one window directory: the row appended, if any;
\* target_note is what the printed summary says about where the target came
\* from (lines 74-78 print the number only).
SamplingRow(w, dist) ==
    LET r == IF dist.exists THEN ReadCV_analyze(dist.file)
             ELSE [ok |-> FALSE, vals |-> <<>>]
        dev == [k \in 1..Len(r.vals) |-> Deviation20(r.vals[k], w)]
    IN  [made |-> r.ok,
         window |-> w,
         target |-> EstimatedTarget(w),
         target_note |-> "",
         points |-> Len(r.vals),
         mean_deviation |-> IF r.ok THEN <<SeqSum(dev), 20 * Len(dev)>> ELSE <<0, 1>>,
         max_deviation |-> IF r.ok THEN <<SeqMax(dev), 20>> ELSE <<0, 1>>,
         pct_within |-> IF r.ok
                        THEN <<100 * Cardinality({k \in 1..Len(dev) : dev[k] < 2}),
                               Len(dev)>>
                        ELSE <<0, 1>>]

analyze_restraint_effectiveness(fld) ==
    LET nums == SortedSeq({w \in WindowIds :
                              fld[w].isdir /\ SamplingRow(w, fld[w].dist).made})
    IN  [k \in 1..Len(nums) |-> SamplingRow(nums[k], fld[nums[k]].dist)]

\* ------------------------------------------------------ analysis: scripts
\* us_check.main, lines 280-284
UsLoad ==
    /\ pc = "us_load"
    /\ windows_data' = load_restraint_data(folder)
    /\ IF Loaded(windows_data') = {}
       THEN /\ pc' = "us_done"
            /\ exit_status' = 0
       ELSE /\ pc' = "us_targets"
            /\ UNCHANGED exit_status
    /\ UNCHANGED <<pwstate, rdvars, folder, target_distances, quality_df,
                   insufficient_overlap, min_overlap, cs_results, pmfvars>>

\* us_check.main, line 287
UsTargets ==
    /\ pc = "us_targets"
    /\ target_distances' = get_target_distances(folder)
    /\ pc' = "us_quality"
    /\ UNCHANGED <<pwstate, rdvars, folder, windows_data, quality_df,
                   insufficient_overlap, min_overlap, cs_results, exit_status,
                   pmfvars>>

\* us_check.main, lines 292-295
UsQuality ==
    /\ pc = "us_quality"
    /\ quality_df' = analyze_window_quality(windows_data, target_distances)
    /\ pc' = "us_overlap"
    /\ UNCHANGED <<pwstate, rdvars, folder, windows_data, target_distances,
                   insufficient_overlap, min_overlap, cs_results, exit_status,
                   pmfvars>>

\* us_check.main, lines 297-340: the overlap check, the printed assessment and
\* the return; min_overlap is 0.1 (the default main uses) or 0.5.
UsOverlap ==
    /\ pc = "us_overlap"
    /\ \E m \in {<<1, 10>>, <<1, 2>>} :
         /\ min_overlap' = m
         /\ insufficient_overlap' = check_window_overlap(windows_data, m)
    /\ pc' = "us_done"
    /\ exit_status' = 0
    /\ UNCHANGED <<pwstate, rdvars, folder, windows_data, target_distances,
                   quality_df, cs_results, pmfvars>>

\* check_sampling.py run as a script, lines 88-100
CsAnalyze ==
    /\ pc = "cs_analyze"
    /\ cs_results' = analyze_restraint_effectiveness(folder)
    /\ pc' = "cs_done"
    /\ exit_status' = 0
    /\ UNCHANGED <<pwstate, rdvars, folder, windows_data, target_distances,
                   quality_df, insufficient_overlap, min_overlap, pmfvars>>

NextAnalysis ==
    \/ UsLoad
    \/ UsTargets
    \/ UsQuality
    \/ UsOverlap
    \/ CsAnalyze

\* window_w/COM_prod.RST as prepare_windows writes it for MaxWindows windows.
WrittenRst(w) ==
    [exists |-> TRUE, readable |-> TRUE,
     text |-> ResolveTemplate(RestraintFiles.disang_prod,
                              linspace(min_com, max_com, MaxWindows)[w + 1])]

\* Hand-written restraint texts holding only r2=15.000, only r3=15.000.
R2OnlyText == L_head \o L_r2 \o <<"1", "5", ".", "0", "0", "0">> \o L_sep \o L_tail
R3OnlyText == L_head \o L_r3 \o <<"1", "5", ".", "0", "0", "0">> \o L_sep \o L_tail

\* What window_w/COM_prod.RST can be: absent, unreadable, as written by
\* prepare_windows, the unresolved template (neither r2 nor r3 holds a number),
\* or one of the hand-written texts.
RstChoices(w) ==
    <<NoRstFile,
      [exists |-> TRUE, readable |-> FALSE, text |-> <<>>],
      WrittenRst(w),
      [exists |-> TRUE, readable |-> TRUE, text |-> RestraintFiles.disang_prod],
      [exists |-> TRUE, readable |-> TRUE, text |-> R2OnlyText],
      [exists |-> TRUE, readable |-> TRUE, text |-> R3OnlyText]>>

\* One of the two scripts is about to run on a folder; prepare_windows and the
\* readers are not running.
InitScripts ==
    /\ pc \in {"us_load", "cs_analyze"}
    /\ PWFresh
    /\ system_name = ""
    /\ n_windows = 0
    /\ submit_jobs = FALSE
    /\ RDIdle
    /\ windows_data = [w \in WindowIds |-> [loaded |-> FALSE, vals |-> <<>>]]
    /\ target_distances = [w \in WindowIds |-> NoTarget]
    /\ quality_df = <<>>
    /\ insufficient_overlap = <<>>
    /\ min_overlap = <<1, 10>>
    /\ cs_results = <<>>
    /\ exit_status = -1
    /\ PMFIdle

\* Folders whose window directories may be absent and whose dist.dat files
\* vary; the restraint files are those prepare_windows wrote.
InitData ==
    /\ InitScripts
    /\ \E isd \in [WindowIds -> BOOLEAN] :
         \E d \in [WindowIds -> DistFiles] :
            folder = [w \in WindowIds |->
                         IF isd[w]
                         THEN [isdir |-> TRUE, dist |-> d[w], rst |-> WrittenRst(w)]
                         ELSE [isdir |-> FALSE, dist |-> NoDistFile,
                               rst |-> NoRstFile]]

SpecData == InitData /\ [][NextAnalysis]_vars

\* Folders whose restraint files vary; every dist.dat holds MinSamples rows.
InitTargets ==
    /\ InitScripts
    /\ \E pick \in [WindowIds -> 1..6] :
         folder = [w \in WindowIds |->
                      [isdir |-> TRUE,
                       dist |-> [exists |-> TRUE,
                                 file |-> [numeric |-> TRUE,
                                           rows |-> LongTable(MinSamples, 10, 14)]],
                       rst |-> RstChoices(w)[pick[w]]]]

SpecTargets == InitTargets /\ [][NextAnalysis]_vars

\* ------------------------------------------------------------------ pmf.py
L_window == <<"w", "i", "n", "d", "o", "w", "_">>
L_distdat == <<"/", "d", "i", "s", "t", ".", "d", "a", "t">>
L_space == <<" ">>
L_weight == <<"2", ".", "0">>

\* A manifest whose targets come from a spacing that leaves out the end point.
pmf_window_centers_open(num) == linspace_noendpoint(min_com, max_com, num)

\* pmf.py line 9: np.linspace(min_com, max_com, num_windows) with the script's
\* own min_com = 3.0 and max_com = 33.0.
pmf_window_centers(num) == linspace(min_com, max_com, num)

\* pmf.py line 13 without the newline:
\* f"window_{i}/dist.dat {window_centers[i]} 2.0".
metadata_line(i, center) ==
    L_window \o NatStr(i) \o L_distdat \o L_space
        \o FloatStr(center[1], center[2]) \o L_space \o L_weight

\* pmf.py lines 11-13: the lines written to metadata.dat.
pmf_metadata(num) ==
    LET centers == pmf_window_centers(num)
    IN  [k \in 1..num |-> metadata_line(k - 1, centers[k])]

\* What pmf.dat holds once wham, tail, sed and awk have run (lines 15-24): the
\* shell redirection creates the file even when wham produced nothing.
PmfDatFiles == {"rows", "empty", "malformed"}

\* pmf.py lines 5-13, run in a folder prepare_windows has prepared; the script's
\* num_windows is the constant of line 5 (30), here any count up to MaxWindows.
PmfWriteMetadata ==
    /\ pc = "done"
    /\ outcome = "ok"
    /\ \E num \in 0..MaxWindows :
         /\ num_windows' = num
         /\ metadata' = pmf_metadata(num)
    /\ pc' = "pmf_wham"
    /\ UNCHANGED <<pwstate, rdvars, folder, windows_data, target_distances,
                   quality_df, insufficient_overlap, min_overlap, cs_results,
                   exit_status>>

\* pmf.py lines 15-51: the external commands, then pmf.dat is parsed and
\* plotted.  An empty pmf.dat ends in ZeroDivisionError at line 41, a row that
\* does not hold two numbers in IndexError or ValueError at lines 31-32.
PmfPlot ==
    /\ pc = "pmf_wham"
    /\ \E dat \in PmfDatFiles :
         IF dat = "rows"
         THEN pc' = "pmf_done" /\ exit_status' = 0
         ELSE pc' = "pmf_crashed" /\ exit_status' = 1
    /\ UNCHANGED <<pwstate, rdvars, folder, windows_data, target_distances,
                   quality_df, insufficient_overlap, min_overlap, cs_results,
                   pmfvars>>

\* prepare_windows, then pmf.py in the prepared folder.
NextPmf ==
    \/ prepare_windows
    \/ PmfWriteMetadata
    \/ PmfPlot

SpecPmf == Init /\ [][NextPmf]_vars

\* ------------------------------------------------------------------ claims
\* Positions of prepare_windows.
CentersComputed ==
    pc \in {"select", "script", "cpptraj", "build"}
        \/ (pc \in {"done", "crashed"} /\ scriptWritten)
        \/ (pc = "crashed" /\ Len(window_centers) > 0)

FramesSelected ==
    pc \in {"script", "cpptraj", "build"}
        \/ (pc \in {"done", "crashed"} /\ scriptWritten)

\* The CV series as the file holds it (second column of every row).
RawSeries == [k \in 1..Len(pull_dist.rows) |-> pull_dist.rows[k][2]]

\* C1: the frame chosen for each window center minimizes |com_values[k] - t|
\* over the (possibly truncated) series, and among equal minima it is the one
\* with the lowest index.
C1_NearestFrameLowestIndex ==
    FramesSelected =>
        /\ Len(frame_indices) = Len(window_centers)
        /\ \A k \in 1..Len(window_centers) :
             LET c == window_centers[k]
                 idx == frame_indices[k] + 1
             IN  /\ idx \in 1..Len(com_values)
                 /\ \A j \in 1..Len(com_values) :
                      /\ AbsDiff(com_values[idx], c) <= AbsDiff(com_values[j], c)
                      /\ j < idx => AbsDiff(com_values[j], c) > AbsDiff(com_values[idx], c)

\* A truncated series in which two different values tie for a center.
C1_Witness ==
    /\ FramesSelected
    /\ Len(com_values) < Len(pull_dist.rows)
    /\ \E k \in 1..Len(window_centers) :
         \E j \in 1..Len(com_values) :
             /\ j > frame_indices[k] + 1
             /\ com_values[j] # com_values[frame_indices[k] + 1]
             /\ AbsDiff(com_values[j], window_centers[k])
                    = AbsDiff(com_values[frame_indices[k] + 1], window_centers[k])

EvenlySpaced(cs) ==
    \A k \in 1..(Len(cs) - 2) :
        RatEq(RatDiff(cs[k + 1], cs[k]), RatDiff(cs[k + 2], cs[k + 1]))

StrictlyIncreasing(cs) ==
    \A k \in 1..(Len(cs) - 1) : RatLess(cs[k], cs[k + 1])

\* C2 as stated: for every n_windows >= 1 the centers are n_windows evenly
\* spaced, strictly increasing values that include both 3.0 and 33.0.
C2_CentersIncludeBothEndpoints ==
    (CentersComputed /\ n_windows >= 1) =>
        /\ Len(window_centers) = n_windows
        /\ EvenlySpaced(window_centers)
        /\ StrictlyIncreasing(window_centers)
        /\ RatEq(window_centers[1], <<min_com, 1>>)
        /\ RatEq(window_centers[n_windows], <<max_com, 1>>)

\* C2 amended: for every n_windows >= 2 the centers are n_windows evenly spaced,
\* strictly increasing values from 3.0 to 33.0 inclusive; for n_windows = 1 the
\* single center is 3.0 and 33.0 is not included.
C2_CentersEvenlySpaced ==
    /\ (CentersComputed /\ n_windows >= 2) =>
        /\ Len(window_centers) = n_windows
        /\ EvenlySpaced(window_centers)
        /\ StrictlyIncreasing(window_centers)
        /\ RatEq(window_centers[1], <<min_com, 1>>)
        /\ RatEq(window_centers[n_windows], <<max_com, 1>>)
    /\ (CentersComputed /\ n_windows = 1) =>
        /\ Len(window_centers) = 1
        /\ RatEq(window_centers[1], <<min_com, 1>>)
        /\ ~RatEq(window_centers[1], <<max_com, 1>>)

\* Centers computed for at least three windows (an interior center exists).
C2_Witness ==
    /\ pc = "select"
    /\ n_windows >= 3
    /\ Len(window_centers) = n_windows

\* C3 as stated: when the trajectory frame count and the series length differ,
\* the call goes on with the first min(n_frames, len) samples, so it reaches
\* the extraction script and every frame index in it is below that minimum.
C3_TruncateAndContinue ==
    (/\ pc \notin {"start", "check", "load", "nc", "readers"}
     /\ nc_frames >= 0
     /\ nc_frames # Len(pull_dist.rows)
     /\ n_windows >= 1) =>
        /\ com_values = SubSeq(RawSeries, 1, Min(nc_frames, Len(pull_dist.rows)))
        /\ \A k \in 1..Len(script) :
             script[k].frame < Min(nc_frames, Len(pull_dist.rows))
        /\ ~(pc = "crashed" /\ ~scriptWritten)

\* C4: the resolved Production restraint of every built window has no
\* placeholder left and its target fields r2 and r3 each hold the window's
\* value V exactly once and nothing else.
C4_PlaceholderResolved ==
    \A w \in dirs :
        LET V == FloatStr(window_centers[w + 1][1], window_centers[w + 1][2])
            text == dirRST[w]
            f2 == FieldValue(text, L_r2)
            f3 == FieldValue(text, L_r3)
        IN  /\ StrCount(text, dishere) = 0
            /\ StrCount(f2, V) = 1
            /\ StrCount(f3, V) = 1
            /\ Len(f2) = Len(V)
            /\ Len(f3) = Len(V)

\* A window past the first one built from a template holding the placeholder.
C4_Witness ==
    /\ StrCount(RestraintFiles.disang_prod, dishere) >= 1
    /\ \E w \in dirs : w >= 1 /\ dirRST[w] # RestraintFiles.disang_prod

\* The i-th of n evenly spaced targets over [3.0, 33.0].
IthTarget(n, w) ==
    IF n = 1 THEN <<min_com, 1>>
    ELSE <<min_com * (n - 1) + w * (max_com - min_com), n - 1>>

CopiedInputs == {"bdp-btb-acetonitrile.prmtop", "COM_prod.RST", "prod.in"}

\* C7 as stated: when a shared input the build copies is missing (topology,
\* prod.in, the COM_prod.RST template, an extracted window_i.rst) the call
\* fails with no window directory created and names the missing file.
C7_MissingInputFailsBeforeBuild ==
    /\ (missing \cap CopiedInputs # {}) =>
          /\ dirs = {}
          /\ pc = "done"
          /\ result = <<>>
          /\ reported \in missing
    /\ (/\ pc \in {"build", "done", "crashed"}
        /\ cpptraj.ran
        /\ \E w \in 0..(n_windows - 1) : w \notin rstFiles) =>
          /\ dirs = {}
          /\ result = <<>>

\* C8 as stated: with n_windows < 1 no extraction script is written, no
\* external tool is run and no directory is created.
C8_InvalidCountDoesNoWork ==
    n_windows < 1 =>
        /\ ~scriptWritten
        /\ ~cpptraj.ran
        /\ dirs = {}

\* pull_dist.dat has been read by this call.
CVRead ==
    /\ pc \notin {"start", "check", "load", "readers"}
    /\ outcome \notin {"dir_not_found", "missing_file"}

\* Not parsable, empty, or without a second column.
UnusableCV(f) ==
    \/ ~f.numeric
    \/ Len(f.rows) = 0
    \/ Len(f.rows[1]) < 2

\* C9: a CV file that is missing, cannot be parsed, is empty or has no second
\* column ends the call with an empty result: no crash, no extraction script,
\* no extractor run, no window directory.
C9_BadSeriesIsDataUnavailable ==
    ((CVRead /\ UnusableCV(pull_dist)) \/ "pull_dist.dat" \in missing) =>
        /\ pc = "done"
        /\ outcome \in {"load_error", "missing_file"}
        /\ result = <<>>
        /\ ~scriptWritten
        /\ ~cpptraj.ran
        /\ dirs = {}

\* A parsable file of several rows with one column has been read.
C9_Witness ==
    /\ CVRead
    /\ pull_dist.numeric
    /\ Len(pull_dist.rows) >= 2
    /\ Len(pull_dist.rows[1]) = 1
    /\ outcome = "load_error"

\* C10 as stated: each of the three readers takes a single row of at least two
\* columns as a series of length 1 holding the second column, and a file of
\* several rows as the second column of every row.
C10_ReadersAcceptSingleRow ==
    \A r \in {rd_prepare, rd_load, rd_analyze} :
        (/\ r.read
         /\ rd_file.numeric
         /\ Len(rd_file.rows) >= 1
         /\ Len(rd_file.rows[1]) >= 2) =>
            /\ r.ok
            /\ r.vals = [k \in 1..Len(rd_file.rows) |-> rd_file.rows[k][2]]

\* A second run has rebuilt every window of a build of at least two windows.
RebuiltAll ==
    /\ first_run.done
    /\ pc = "done"
    /\ i_loop = n_windows

\* C11: during and after a second run with the same n_windows, shared inputs
\* and extraction results, every window directory holds the files and the
\* restraint text the first run left; a rebuilt window's restraint has no
\* placeholder, and the second run that returns has rebuilt every window.
C11_RerunLeavesSameContents ==
    first_run.done =>
        /\ \A w \in WindowIds :
             /\ dirFiles[w] = first_run.dirFiles[w]
             /\ dirRST[w] = first_run.dirRST[w]
        /\ \A w \in {d \in dirs : d < i_loop} :
             /\ StrCount(dirRST[w], dishere) = 0
             /\ Len(dirRST[w]) = Len(first_run.dirRST[w])
        /\ pc = "done" =>
             /\ outcome = "ok"
             /\ dirs = 0..(n_windows - 1)
             /\ result = [k \in 1..n_windows |-> k - 1]

C11_Witness ==
    /\ RebuiltAll
    /\ n_windows >= 2
    /\ \A w \in dirs : first_run.dirRST[w] # RestraintFiles.disang_prod

\* C12 as stated: with submit_jobs enabled, once a submission has been attempted
\* the call ends with every window in [0, n_windows) built and its submission
\* attempted, whether the earlier submissions exited nonzero or could not be
\* launched.
C12_FailedSubmissionDoesNotBlock ==
    (submit_jobs /\ submitted # <<>> /\ pc \in {"done", "crashed"}) =>
        \A w \in 0..(n_windows - 1) :
            /\ w \in dirs
            /\ \E k \in 1..Len(submitted) : submitted[k].window = w

\* The bounds and force constants a restraint text holds, as numbers.
RestraintFields(text) ==
    [r1 |-> ParseFloat(FieldValue(text, L_r1)),
     r2 |-> ParseFloat(FieldValue(text, L_r2)),
     r3 |-> ParseFloat(FieldValue(text, L_r3)),
     r4 |-> ParseFloat(FieldValue(text, L_r4)),
     rk2 |-> ParseFloat(FieldValue(text, L_rk2)),
     rk3 |-> ParseFloat(FieldValue(text, L_rk3))]

AllParsed(f) ==
    f.r1.ok /\ f.r2.ok /\ f.r3.ok /\ f.r4.ok /\ f.rk2.ok /\ f.rk3.ok

\* r1 = target - 1000 and r4 = target + 1000 for the target in r2/r3.
OuterBoundsFollowTarget(f) ==
    /\ AllParsed(f)
    /\ RatEq(f.r2.val, f.r3.val)
    /\ RatEq(f.r1.val, RatDiff(f.r2.val, <<BufferOffset, 1>>))
    /\ RatEq(RatDiff(f.r4.val, f.r2.val), <<BufferOffset, 1>>)

\* C13 as stated: in the Equilibration restraint and in every window's resolved
\* Production restraint, r1 is the target minus 1000 and r4 the target plus
\* 1000, the target being the value in the file's r2/r3 fields.
C13_OuterBoundsAroundTarget ==
    /\ OuterBoundsFollowTarget(RestraintFields(RestraintFiles.disang_equi))
    /\ \A w \in dirs : OuterBoundsFollowTarget(RestraintFields(dirRST[w]))

\* r1 < r2 <= r3 < r4 with equal force constants.
FlatBottomShape(f) ==
    /\ AllParsed(f)
    /\ RatLess(f.r1.val, f.r2.val)
    /\ ~RatLess(f.r3.val, f.r2.val)
    /\ RatLess(f.r3.val, f.r4.val)
    /\ RatEq(f.rk2.val, f.rk3.val)

\* C14: the Equilibration restraint written for the configured pulling start
\* value and the resolved Production restraint of every built window satisfy
\* r1 < r2 <= r3 < r4 with rk2 = rk3.  A window's file is read back in the
\* state that follows its write (the window before i_loop) and every window's
\* file is read back once the call has returned.
C14_FlatBottomShape ==
    /\ FlatBottomShape(RestraintFields(RestraintFiles.disang_equi))
    /\ \A w \in dirs :
         (w = i_loop - 1 \/ pc = "done") =>
             FlatBottomShape(RestraintFields(dirRST[w]))

\* The windows at both ends of the range and one in between have been built.
C14_Witness ==
    /\ Cardinality(dirs) >= 3
    /\ \E w \in dirs :
         RatEq(RestraintFields(dirRST[w]).r2.val, <<max_com, 1>>)
    /\ \E w \in dirs :
         LET t == RestraintFields(dirRST[w]).r2.val
         IN  RatLess(<<min_com, 1>>, t) /\ RatLess(t, <<max_com, 1>>)

\* C20: with n_windows = 1 the spacing computation completes with the single
\* center min_com (3.0); one frame is selected and written to the extraction
\* script for it, and the build creates the one directory window_0.
C20_SingleWindowAtMinimum ==
    n_windows = 1 =>
        /\ CentersComputed =>
             /\ Len(window_centers) = 1
             /\ RatEq(window_centers[1], <<min_com, 1>>)
             /\ window_centers[1][2] # 0
        /\ pc = "crashed" => Len(window_centers) = 1
        /\ FramesSelected => Len(frame_indices) = 1
        /\ scriptWritten => (Len(script) = 1 /\ script[1].out = 0)
        /\ dirs \subseteq {0}
        /\ (pc = "done" /\ outcome = "ok") =>
             /\ dirs = {0}
             /\ result = <<0>>

C20_Witness ==
    /\ n_windows = 1
    /\ pc = "done"
    /\ outcome = "ok"
    /\ dirs = {0}
    /\ FieldValue(dirRST[0], L_r2) = FloatStr(min_com, 1)

\* us_check.main has run check_window_overlap.
OverlapChecked == pc = "us_done" /\ Loaded(windows_data) # {}

\* C15 as stated: every pair check_window_overlap reports is a pair of adjacent
\* ids (w, w + 1), in ascending order, also when a window in between has no
\* loaded data.
C15_OnlyAdjacentIds ==
    OverlapChecked =>
        /\ \A k \in 1..Len(insufficient_overlap) :
             insufficient_overlap[k].w2 = insufficient_overlap[k].w1 + 1
        /\ \A k \in 1..(Len(insufficient_overlap) - 1) :
             insufficient_overlap[k].w1 < insufficient_overlap[k + 1].w1

\* The pairs the overlap check compares: loaded windows with no loaded window
\* between them.
ComparedPairs ==
    {p \in Loaded(windows_data) \X Loaded(windows_data) :
        /\ p[1] < p[2]
        /\ \A c \in Loaded(windows_data) : ~(p[1] < c /\ c < p[2])}

\* The reasons a pair is reported with.
ReportedReasons(p) ==
    {insufficient_overlap[k].reason :
        k \in {j \in 1..Len(insufficient_overlap) :
                  /\ insufficient_overlap[j].w1 = p[1]
                  /\ insufficient_overlap[j].w2 = p[2]}}

Samples(w) == windows_data[w].vals
TooFew(p) == Len(Samples(p[1])) < MinSamples \/ Len(Samples(p[2])) < MinSamples
RangeOf(w) == SeqMax(Samples(w)) - SeqMin(Samples(w))

\* Length of the intersection of the two observed ranges; negative when the
\* ranges are disjoint.
Intersection(p) ==
    Min(SeqMax(Samples(p[1])), SeqMax(Samples(p[2])))
        - Max(SeqMin(Samples(p[1])), SeqMin(Samples(p[2])))

\* intersection / range < min_overlap; a range of length 0 has no ratio.
RatioBelow(p, w) ==
    /\ RangeOf(w) > 0
    /\ Intersection(p) * min_overlap[2] < min_overlap[1] * RangeOf(w)

\* C16 as stated: a compared pair is flagged exactly when a window has fewer
\* than 10 samples, or the ranges do not intersect (flagged "No overlap"), or
\* the intersection length over either window's range is below min_overlap.
C16_FlaggedExactlyWhen ==
    OverlapChecked =>
        \A p \in ComparedPairs :
            LET disjoint == Intersection(p) < 0
            IN  /\ (ReportedReasons(p) # {}) <=>
                       \/ TooFew(p)
                       \/ disjoint
                       \/ RatioBelow(p, p[1])
                       \/ RatioBelow(p, p[2])
                /\ ("No overlap" \in ReportedReasons(p)) <=> (~TooFew(p) /\ disjoint)

\* C16 amended: a compared pair is flagged exactly when a window has fewer than
\* 10 samples, or the intersection of the ranges is empty or of length zero
\* (flagged "No overlap"), or the intersection length over either window's
\* range is below min_overlap.
C16_FlaggedZeroLengthToo ==
    OverlapChecked =>
        \A p \in ComparedPairs :
            LET nolength == Intersection(p) <= 0
            IN  /\ (ReportedReasons(p) # {}) <=>
                       \/ TooFew(p)
                       \/ nolength
                       \/ RatioBelow(p, p[1])
                       \/ RatioBelow(p, p[2])
                /\ ("No overlap" \in ReportedReasons(p)) <=> (~TooFew(p) /\ nolength)
                /\ ("Insufficient data" \in ReportedReasons(p)) <=> TooFew(p)
                /\ Cardinality(ReportedReasons(p)) <= 1

\* Ranges [5,7] and [7.5,9] reported as "No overlap" and ranges [5,7] and
\* [6.5,9] not reported, at min_overlap = 0.1.
C16_Witness ==
    /\ OverlapChecked
    /\ min_overlap = <<1, 10>>
    /\ \E p \in ComparedPairs :
         /\ ~TooFew(p)
         /\ SeqMin(Samples(p[1])) = 10 /\ SeqMax(Samples(p[1])) = 14
         /\ SeqMin(Samples(p[2])) = 15 /\ SeqMax(Samples(p[2])) = 18
         /\ ReportedReasons(p) = {"No overlap"}
    /\ \E p \in ComparedPairs :
         /\ ~TooFew(p)
         /\ SeqMin(Samples(p[2])) = 10 /\ SeqMax(Samples(p[2])) = 14
         /\ SeqMin(Samples(p[1])) = 13 /\ SeqMax(Samples(p[1])) = 18
         /\ ReportedReasons(p) = {}

\* A window directory whose dist.dat is missing or malformed.
BadWindow(w) ==
    /\ folder[w].isdir
    /\ (~folder[w].dist.exists \/ UnusableCV(folder[w].dist.file))

\* C17 as stated: once an analysis has produced its report, every window whose
\* data file is missing or malformed has an entry in it with the status
\* "Insufficient data", and the run has not aborted.
C17_BadWindowIsReported ==
    /\ (pc \in {"us_overlap", "us_done"} /\ quality_df # <<>>) =>
          \A w \in {b \in WindowIds : BadWindow(b)} :
              \E k \in 1..Len(quality_df) :
                  /\ quality_df[k].window = w
                  /\ quality_df[k].status = "Insufficient data"
    /\ (pc = "cs_done" /\ cs_results # <<>>) =>
          \A w \in {b \in WindowIds : BadWindow(b)} :
              \E k \in 1..Len(cs_results) : cs_results[k].window = w
    /\ pc # "crashed"

\* The one message that calls the target an estimate.
SaysEstimate(msg) ==
    msg = "Warning: Could not find target distance, using estimated value"

\* C18 as stated: whenever an analyzer uses the estimate 0.45 + 0.1 * window_num
\* its output flags that window's target as an estimate, and a restraint file
\* with r2=15.000 and no r3 yields 15.0 without a flag.
C18_EstimateIsFlagged ==
    /\ \A w \in WindowIds :
          target_distances[w].set =>
              /\ target_distances[w].source = "estimate" =>
                     SaysEstimate(target_distances[w].message)
              /\ (folder[w].rst.readable /\ folder[w].rst.text = R2OnlyText) =>
                     /\ RatEq(target_distances[w].val, <<15, 1>>)
                     /\ ~SaysEstimate(target_distances[w].message)
    /\ \A k \in 1..Len(cs_results) :
          RatEq(cs_results[k].target, EstimatedTarget(cs_results[k].window)) =>
              SaysEstimate(cs_results[k].target_note)

\* No window directory of the folder holds a usable dist.dat.
NoValidData ==
    \A w \in WindowIds :
        ~(/\ folder[w].isdir
          /\ folder[w].dist.exists
          /\ ~UnusableCV(folder[w].dist.file))

\* C19 as stated: an analysis script that finds no valid window data in the
\* folder ends with a nonzero exit status.
C19_NoDataExitsNonzero ==
    (pc \in {"us_done", "cs_done"} /\ NoValidData) => exit_status # 0

\* The ways prepare_windows returns to its caller.
ReturnPaths ==
    {"dir_not_found", "missing_file", "load_error", "nc_error",
     "cpptraj_error", "ok"}

\* C22: whenever prepare_windows has returned (system directory not found,
\* required file missing, CV load failure, trajectory read failure, extraction
\* failure, success), the process working directory is the one the call
\* started in.
C22_ReturnRestoresWorkingDirectory ==
    pc = "done" =>
        /\ outcome \in ReturnPaths
        /\ cwd = "orig"

\* The call changed into the system directory found under BDP_DIR and came back
\* on the extraction-failure return.
C22_Witness ==
    /\ pc = "done"
    /\ outcome = "cpptraj_error"
    /\ system_name # ""
    /\ sysdir = "bdp"
    /\ cwd = "orig"

\* The divisions lines 260-261 evaluate for a compared pair.
Divisors(p) == PairVerdict(Samples(p[1]), Samples(p[2]), min_overlap).divisors

\* A window whose samples are all equal.
ZeroRange(w) == RangeOf(w) = 0

\* C23: check_window_overlap never divides by zero: a compared pair in which a
\* window with at least 10 samples has an observed range of zero is reported
\* as "No overlap" (when both windows have at least 10 samples) and no ratio
\* is computed for it; every ratio that is computed has a divisor above zero.
C23_NoDivisionByZero ==
    OverlapChecked =>
        \A p \in ComparedPairs :
            /\ \A k \in 1..Len(Divisors(p)) : Divisors(p)[k] > 0
            /\ (~TooFew(p) /\ (ZeroRange(p[1]) \/ ZeroRange(p[2]))) =>
                   /\ ReportedReasons(p) = {"No overlap"}
                   /\ Divisors(p) = <<>>

\* A window whose samples all equal 7.0 was compared with one observed over
\* [6.5, 9.0], which contains that value, and another pair had both ratios
\* computed.
C23_Witness ==
    /\ OverlapChecked
    /\ \E p \in ComparedPairs :
         /\ ~TooFew(p)
         /\ ZeroRange(p[1])
         /\ SeqMin(Samples(p[1])) = 14
         /\ SeqMin(Samples(p[2])) = 13 /\ SeqMax(Samples(p[2])) = 18
         /\ ReportedReasons(p) = {"No overlap"}
    /\ \E p \in ComparedPairs : Len(Divisors(p)) = 2

\* The space-separated fields of a manifest line.
RECURSIVE SplitSpace(_)
SplitSpace(line) ==
    LET j == FindFrom(line, L_space, 1)
    IN  IF j = 0 THEN <<line>>
        ELSE <<SubSeq(line, 1, j - 1)>>
                 \o SplitSpace(SubSeq(line, j + 1, Len(line)))

MetadataWritten == pc \in {"pmf_wham", "pmf_done", "pmf_crashed"}

\* Line i of the manifest names window_i/dist.dat and carries the target and
\* the force constants found in window_i/COM_prod.RST.
ManifestLineMatches(i) ==
    LET f == SplitSpace(metadata[i + 1])
        rst == RestraintFields(dirRST[i])
        target == ParseFloat(f[2])
        weight == ParseFloat(f[3])
    IN  /\ Len(f) = 3
        /\ f[1] = L_window \o NatStr(i) \o L_distdat
        /\ target.ok /\ weight.ok /\ AllParsed(rst)
        /\ f[2] = FieldValue(dirRST[i], L_r2)
        /\ RatEq(target.val, rst.r2.val)
        /\ RatEq(target.val, rst.r3.val)
        /\ RatEq(weight.val, rst.rk2.val)
        /\ RatEq(weight.val, rst.rk3.val)
        /\ RatEq(weight.val, <<PROD_FORCE_CONST, 1>>)

\* C21: when pmf.py has written its manifest for the window count that
\* prepare_windows was run with (the CV range 3.0 to 33.0 is the same in both),
\* the manifest has exactly one line per window id i in [0, num_windows), and
\* line i names window_i/dist.dat, carries the target value substituted into
\* window_i/COM_prod.RST and the Production force constant 2.0 written there
\* as rk2 and rk3.
C21_ManifestMatchesWindows ==
    (MetadataWritten /\ num_windows = n_windows) =>
        /\ Len(metadata) = num_windows
        /\ dirs = 0..(num_windows - 1)
        /\ \A i \in 0..(num_windows - 1) : ManifestLineMatches(i)

\* The manifest was written for the three windows prepare_windows built, the
\* middle one at 18.0.
C21_Witness ==
    /\ MetadataWritten
    /\ num_windows = n_windows
    /\ n_windows = 3
    /\ Len(metadata) = 3
    /\ RatEq(ParseFloat(SplitSpace(metadata[2])[2]).val, <<18, 1>>)
    /\ RatEq(RestraintFields(dirRST[1]).r2.val, <<18, 1>>)

====
